---- MODULE Spec2Model ----
(***************************************************************************)
(* Model of the worker-offload layer (WorkerManager, the dispatch facade   *)
(* of NutritionLensApp) and of the per-user camera lock of the session     *)
(* state machine.                                                          *)
(*                                                                         *)
(* Two specifications share the module:                                    *)
(*   SpecWM   the worker manager, its workers and the dispatch facade;     *)
(*   SpecCam  the camera lock under short-press and long-press captures,   *)
(*            with a discrete clock in milliseconds.                       *)
(***************************************************************************)
EXTENDS Integers, Sequences, FiniteSets, TLC

VARIABLES
  \* ---- WorkerManager (utils/worker-manager) ----
  workerPaths,        \* registered worker types                 (Map workerPaths)
  workers,            \* type -> worker instance, 0 = no entry   (Map workers)
  pendingTasks,       \* task ids that have a callback           (Map pendingTasks)
  timers,             \* task ids whose sendTask timeout is armed
  promise,            \* call -> state of the promise sendTask returned
  settles,            \* call -> number of resolve()/reject() invocations
  terminations,       \* terminateWorker calls awaiting worker.terminate()
  \* ---- worker threads and the message ports ----
  threadType,         \* instance i -> its type (sequence of created workers)
  liveThreads,        \* instances whose thread still runs
  inbox,              \* instance -> tasks posted and not yet received
  running,            \* instance -> tasks being processed
  channel,            \* responses posted to the main thread, not yet handled
  \* ---- NutritionLensApp dispatch facade ----
  workersInitialized, \* the app's workersInitialized field
  shutdownPc,         \* "idle" | "terminating" | "returned": position of shutdown()
  callKind,           \* call -> "none" | "facade" | "direct"
  callType,           \* call -> worker type of the call
  callPc,             \* call -> "idle" | "awaiting" | "fallback" | "done"
  sends,              \* call -> number of sendTask invocations
  fallbacks,          \* call -> number of in-process fallback runs
  workerRuns,         \* call -> number of executions of the task in a worker
  outcome,            \* call -> what the caller finally got
  \* ---- observations (history of the run, read by the properties) ----
  delivered,          \* call -> responses handled by handleWorkerMessage
  collabFailed,       \* calls whose execution in a worker hit a collaborator failure
  \* ---- NutritionLensApp camera lock (per user) ----
  now,                \* Date.now()
  cameraInUse,        \* user -> no entry | TRUE | FALSE       (Map cameraInUse)
  lastCameraOperation,\* user -> no entry | time
  isCapturingQuestion,\* user -> no entry | TRUE | FALSE
  capturedQuestions,  \* user -> no entry | the question text (characters)
  ops,                \* capture operation -> its record
  inFlight,           \* user -> operations whose requestPhoto is awaited
  \* ---- NutritionLensApp sessions ----
  userSessions,       \* user -> no entry | session             (Map userSessions)
  isStreamingPhotos,  \* user -> no entry | TRUE | FALSE
  nextPhotoTime,      \* user -> no entry | time
  cameraReady,        \* user -> no entry | TRUE | FALSE
  cleanupHandlers,    \* session -> no entry | the handlers registered
  subscribed,         \* session -> its live listeners and interval timer
  sessionPc,          \* session -> position of its onSession callback
  prewarmDeadline,    \* session -> when the pre-warm timeout fires
  stopped             \* session -> onStop has run for it

wmVars  == <<workerPaths, workers, pendingTasks, timers, promise, settles,
             terminations, threadType, liveThreads, inbox, running, channel,
             workersInitialized, shutdownPc, callKind, callType, callPc, sends, fallbacks,
             workerRuns, outcome, delivered, collabFailed>>
sessVars == <<userSessions, isStreamingPhotos, nextPhotoTime, cameraReady,
              cleanupHandlers, subscribed, sessionPc, prewarmDeadline, stopped>>
camVars == <<now, cameraInUse, lastCameraOperation, isCapturingQuestion,
             capturedQuestions, ops, inFlight, sessVars>>
vars    == <<wmVars, camVars>>

----------------------------------------------------------------------------
(* Bounds of the model *)
MaxCalls   == 2      \* dispatch / sendTask calls
MaxThreads == 2      \* worker threads ever started
MaxOverlap == 1      \* terminate calls under way when another one may start

(* Worker types: the strings 'image' and 'audio' as character sequences, so
   that startsWith is computed on the characters. *)
Image == <<"i", "m", "a", "g", "e">>
Audio == <<"a", "u", "d", "i", "o">>
Types == {Image, Audio}
Calls == 1 .. MaxCalls
Insts == 1 .. MaxThreads

Digits == <<"1", "2", "3", "4", "5", "6", "7", "8", "9">>

\* generateTaskId: `${workerType}_${Date.now()}_${random}`; the unique suffix
\* is the number of the call that generated it.
generateTaskId(workerType, c) == workerType \o <<"_", Digits[c]>>

CallOf(taskId) == CHOOSE c \in 1 .. Len(Digits) : Digits[c] = taskId[Len(taskId)]

\* String.prototype.startsWith
startsWith(s, prefix) ==
  /\ Len(s) >= Len(prefix)
  /\ SubSeq(s, 1, Len(prefix)) = prefix

\* isWorkerAvailable(type): this.workers.has(type)
isWorkerAvailable(type) == workers[type] # 0

----------------------------------------------------------------------------
(* Promises and the facade's continuation.  Settling a promise and running
   the awaiting function's continuation happen in the same turn of the event
   loop (microtasks), so they are one step. *)

\* A promise keeps its first settlement; later resolve()/reject() are ignored.
PromiseAfter(S, how) ==
  [c \in Calls |-> IF c \in S /\ promise[c] = "pending" THEN how ELSE promise[c]]

SettlesAfter(S) ==
  [c \in Calls |-> IF c \in S THEN settles[c] + 1 ELSE settles[c]]

\* The calls of S whose promise this step really settles.
Woken(S) == {c \in S : promise[c] = "pending" /\ callPc[c] = "awaiting"}

\* processAudioSingleThreaded has no suspension point and cannot fail;
\* processImageSingleThreaded awaits the upload (and the analysis).
FallbackIsSynchronous(type) == type = Audio

\* Mutant: the catch block rethrows instead of falling back.
FallbackOnReject_Propagate(c) == FALSE

\* catch (error) { ... return this.processXSingleThreaded(...) }
FallbackOnReject(c) == TRUE

\* processImageParallel / processAudioParallel after `await sendTask(...)`
ContinuePc(S, how) ==
  [c \in Calls |->
     IF c \notin Woken(S) THEN callPc[c]
     ELSE IF callKind[c] = "direct" \/ how = "resolved" THEN "done"
     ELSE IF ~FallbackOnReject(c) THEN "done"
     ELSE IF FallbackIsSynchronous(callType[c]) THEN "done" ELSE "fallback"]

ContinueFallbacks(S, how) ==
  [c \in Calls |->
     IF c \in Woken(S) /\ callKind[c] = "facade" /\ how # "resolved"
        /\ FallbackOnReject(c)
     THEN fallbacks[c] + 1 ELSE fallbacks[c]]

ContinueOutcome(S, how) ==
  [c \in Calls |->
     IF c \notin Woken(S) THEN outcome[c]
     ELSE IF callKind[c] = "direct" THEN how
     ELSE IF how = "resolved" THEN "worker_result"
     ELSE IF ~FallbackOnReject(c) THEN how
     ELSE IF FallbackIsSynchronous(callType[c]) THEN "fallback_result"
     ELSE outcome[c]]

\* resolve()/reject() of the promises of the calls S, and what follows.
Settle(S, how) ==
  /\ promise'   = PromiseAfter(S, how)
  /\ settles'   = SettlesAfter(S)
  /\ callPc'    = ContinuePc(S, how)
  /\ fallbacks' = ContinueFallbacks(S, how)
  /\ outcome'   = ContinueOutcome(S, how)

NoSettle == UNCHANGED <<promise, settles, callPc, fallbacks, outcome>>

----------------------------------------------------------------------------
(* WorkerManager.sendTask *)

\* Mutant: the callback forgets clearTimeout.
TimersAfterCallback_NoClear(S) == timers

\* clearTimeout(timeout) in the callback sendTask registers
TimersAfterCallback(S) == timers \ S

\* Mutant: sendTask registers the callback without arming a timeout.
ArmAndRegister_NoTimeout(id) ==
  /\ timers' = timers
  /\ pendingTasks' = pendingTasks \cup {id}

\* const timeout = setTimeout(...); this.pendingTasks.set(message.id, ...)
ArmAndRegister(id) ==
  /\ timers' = timers \cup {id}
  /\ pendingTasks' = pendingTasks \cup {id}

\* worker.postMessage(message): a thread that no longer runs drops the message
PostMessage(i, id) ==
  inbox' = IF i \in liveThreads THEN [inbox EXCEPT ![i] = Append(@, id)] ELSE inbox

\* Mutant: sendTask does not check that the worker exists.
SendTaskGuard_Missing(workerType) == TRUE

\* if (!worker) throw new Error(`Worker ${workerType} not initialized`)
SendTaskGuard(workerType) == workers[workerType] # 0

\* sendTask(workerType, message) for a worker that is in the map
sendTask(c, workerType) ==
  LET id == generateTaskId(workerType, c) IN
  /\ ArmAndRegister(id)
  /\ PostMessage(workers[workerType], id)
  /\ promise' = [promise EXCEPT ![c] = "pending"]
  /\ sends' = [sends EXCEPT ![c] = @ + 1]

\* A direct call of the exported sendTask.
SendTaskDirect(c, workerType) ==
  /\ callKind[c] = "none"
  /\ \A b \in Calls : b < c => callKind[b] # "none"
  /\ callKind' = [callKind EXCEPT ![c] = "direct"]
  /\ callType' = [callType EXCEPT ![c] = workerType]
  /\ IF SendTaskGuard(workerType)
     THEN /\ sendTask(c, workerType)
          /\ callPc' = [callPc EXCEPT ![c] = "awaiting"]
          /\ UNCHANGED <<settles, outcome>>
     ELSE /\ promise' = [promise EXCEPT ![c] = "rej_noworker"]
          /\ settles' = [settles EXCEPT ![c] = @ + 1]
          /\ sends' = [sends EXCEPT ![c] = @ + 1]
          /\ callPc' = [callPc EXCEPT ![c] = "done"]
          /\ outcome' = [outcome EXCEPT ![c] = "rej_noworker"]
          /\ UNCHANGED <<timers, pendingTasks, inbox>>
  /\ UNCHANGED <<workerPaths, workers, terminations, threadType, liveThreads,
                 running, channel, workersInitialized, shutdownPc, fallbacks, workerRuns,
                 delivered, collabFailed, camVars>>

\* The timeout callback of sendTask: pendingTasks.delete(id); reject(...)
TimeoutFire(id) ==
  /\ id \in timers
  /\ timers' = timers \ {id}
  /\ pendingTasks' = pendingTasks \ {id}
  /\ Settle({CallOf(id)}, "rej_timeout")
  /\ UNCHANGED <<workerPaths, workers, terminations, threadType, liveThreads,
                 inbox, running, channel, workersInitialized, shutdownPc, callKind, callType,
                 sends, workerRuns, delivered, collabFailed, camVars>>

----------------------------------------------------------------------------
(* WorkerManager.handleWorkerMessage *)

\* Mutant: the response is applied without looking the callback up.
HasCallback_Always(id) == TRUE

\* const callback = this.pendingTasks.get(response.id); if (callback) ...
HasCallback(id) == id \in pendingTasks

\* Mutant: the handled response clears the whole map.
PendingAfterMessage_Clear(id) == {}

\* this.pendingTasks.delete(response.id)
PendingAfterMessage(id) == pendingTasks \ {id}

\* Mutant: the success flag of the response is ignored.
ResponseSettlement_AlwaysResolve(response) == "resolved"

\* if (response.success) resolve(response.result) else reject(new Error(...))
ResponseSettlement(response) ==
  IF response.success THEN "resolved" ELSE "rej_failed"

handleWorkerMessage(response) ==
  IF HasCallback(response.id)
  THEN /\ timers' = TimersAfterCallback({response.id})
       /\ Settle({CallOf(response.id)}, ResponseSettlement(response))
       /\ pendingTasks' = PendingAfterMessage(response.id)
  ELSE /\ NoSettle
       /\ UNCHANGED <<timers, pendingTasks>>

\* worker.on('message', ...): one response is taken from the port and handled
HandleWorkerMessage(response) ==
  /\ response \in channel
  /\ channel' = channel \ {response}
  /\ delivered' = [delivered EXCEPT ![CallOf(response.id)] = @ + 1]
  /\ handleWorkerMessage(response)
  /\ UNCHANGED <<workerPaths, workers, terminations, threadType, liveThreads,
                 inbox, running, workersInitialized, shutdownPc, callKind, callType, sends,
                 workerRuns, collabFailed, camVars>>

----------------------------------------------------------------------------
(* WorkerManager.handleWorkerError *)

\* Mutant: every pending task is failed, whatever its prefix.
FailedTasks_All(workerType) == pendingTasks

\* if (taskId.startsWith(workerType)) ... failedTasks.push(taskId)
FailedTasks(workerType) == {id \in pendingTasks : startsWith(id, workerType)}

\* handleWorkerError leaves this.workers as it is
WorkersAfterError(workerType) == workers

\* A thread stops: what it had received is lost.
ThreadStop(I) ==
  /\ liveThreads' = liveThreads \ I
  /\ inbox' = [i \in Insts |-> IF i \in I THEN <<>> ELSE inbox[i]]
  /\ running' = [i \in Insts |-> IF i \in I THEN {} ELSE running[i]]

\* worker.on('error', ...): an uncaught exception ends the thread, then
\* handleWorkerError(type, error) runs on the main thread.
WorkerError(i) ==
  /\ i \in liveThreads
  /\ LET type == threadType[i]
         failed == FailedTasks(type) IN
     /\ ThreadStop({i})
     /\ timers' = TimersAfterCallback(failed)
     /\ Settle({CallOf(id) : id \in failed}, "rej_error")
     /\ pendingTasks' = pendingTasks \ failed
     /\ workers' = WorkersAfterError(type)
  /\ UNCHANGED <<workerPaths, terminations, threadType, channel,
                 workersInitialized, shutdownPc, callKind, callType, sends, workerRuns,
                 delivered, collabFailed, camVars>>

\* worker.on('exit', ...): the thread ended by itself; the handler only logs.
WorkerExit(i) ==
  /\ i \in liveThreads
  /\ ThreadStop({i})
  /\ NoSettle
  /\ UNCHANGED <<workerPaths, workers, pendingTasks, timers, terminations,
                 threadType, channel, workersInitialized, shutdownPc, callKind, callType,
                 sends, workerRuns, delivered, collabFailed,
                 camVars>>

----------------------------------------------------------------------------
(* WorkerManager.terminateWorker, terminateAll, initializeWorker *)

\* const worker = this.workers.get(type); if (worker) { await worker.terminate()
\* Responses the thread posted before it stopped are still delivered.
TerminateBegin(T, by) ==
  LET I == {workers[t] : t \in T} IN
  /\ Cardinality(terminations) < MaxOverlap
  /\ \A t \in T : workers[t] # 0 /\ [type |-> t, by |-> by] \notin terminations
  /\ ThreadStop(I)
  /\ terminations' = terminations \cup {[type |-> t, by |-> by] : t \in T}
  /\ UNCHANGED channel

\* new Worker(path.resolve(scriptPath)); ...; this.workers.set(type, worker)
StartWorker(type) ==
  LET i == Len(threadType) + 1 IN
  /\ threadType' = Append(threadType, type)
  /\ liveThreads' = liveThreads \cup {i}
  /\ workers' = [workers EXCEPT ![type] = i]

\* Threads that initializeWorker calls under way may still start.
ThreadsReserved ==
  Len(threadType) + Cardinality({t \in terminations : t.by = "init"})

\* terminateWorker(type), called from outside the manager
TerminateWorker(type) ==
  /\ TerminateBegin({type}, "api")
  /\ NoSettle
  /\ UNCHANGED <<workerPaths, workers, pendingTasks, timers, threadType,
                 workersInitialized, shutdownPc, callKind, callType, sends, workerRuns,
                 delivered, collabFailed, camVars>>

\* terminateAll(): terminateWorker for every key, then pendingTasks.clear()
TerminateAll ==
  LET T == {t \in Types : workers[t] # 0} IN
  /\ \A t \in terminations : t.by # "all"
  /\ IF T = {}
     THEN /\ pendingTasks # {}
          /\ pendingTasks' = {}
          /\ UNCHANGED <<terminations, liveThreads, inbox, running, channel>>
     ELSE /\ TerminateBegin(T, "all")
          /\ UNCHANGED pendingTasks
  /\ NoSettle
  /\ UNCHANGED <<workerPaths, workers, timers, threadType, workersInitialized, shutdownPc,
                 callKind, callType, sends, workerRuns, delivered, collabFailed, camVars>>

\* Mutant: terminateWorker leaves the record of the worker in the map.
WorkersAfterTerminate_Keep(type) == workers

\* this.workers.delete(type)
WorkersAfterTerminate(type) == [workers EXCEPT ![type] = 0]

\* pendingTasks.clear() of terminateAll: no callback runs, no timeout is cleared
PendingAfterTerminateAll == {}

\* await Promise.allSettled(terminationPromises) of a terminateAll() call (made
\* by a user of the manager, "all", or by shutdown(), "shutdown") returns when
\* the last of its terminateWorker calls has returned.
LastOfTerminateAll(term) ==
  /\ term.by \in {"all", "shutdown"}
  /\ \A t \in terminations \ {term} : t.by # term.by

\* shutdown() of the application:
\*   if (this.workersInitialized) { await shutdownDefaultWorkers();
\*                                  this.workersInitialized = false; }
\* shutdownDefaultWorkers() is terminateAll() of the default manager.  Without
\* a recorded worker the awaits resume in the same turn.
shutdown ==
  LET T == {t \in Types : workers[t] # 0} IN
  /\ shutdownPc = "idle"
  /\ IF ~workersInitialized
     THEN /\ shutdownPc' = "returned"
          /\ UNCHANGED <<workersInitialized, pendingTasks, terminations,
                         liveThreads, inbox, running, channel>>
     ELSE IF T = {}
     THEN /\ pendingTasks' = PendingAfterTerminateAll
          /\ workersInitialized' = FALSE
          /\ shutdownPc' = "returned"
          /\ UNCHANGED <<terminations, liveThreads, inbox, running, channel>>
     ELSE /\ TerminateBegin(T, "shutdown")
          /\ shutdownPc' = "terminating"
          /\ UNCHANGED <<workersInitialized, pendingTasks>>
  /\ NoSettle
  /\ UNCHANGED <<workerPaths, workers, timers, threadType, callKind, callType,
                 sends, workerRuns, delivered, collabFailed, camVars>>

\* worker.terminate() has resolved: the rest of terminateWorker and of its caller
TerminateDone(term, ok) ==
  /\ term \in terminations
  /\ terminations' = terminations \ {term}
  /\ IF term.by = "init" /\ ok
     THEN StartWorker(term.type)
     ELSE /\ workers' = WorkersAfterTerminate(term.type)
          /\ UNCHANGED <<threadType, liveThreads>>
  /\ pendingTasks' =
       IF LastOfTerminateAll(term) THEN PendingAfterTerminateAll ELSE pendingTasks
  /\ IF term.by = "shutdown" /\ LastOfTerminateAll(term)
     THEN /\ workersInitialized' = FALSE
          /\ shutdownPc' = "returned"
     ELSE UNCHANGED <<workersInitialized, shutdownPc>>
  /\ NoSettle
  /\ UNCHANGED <<workerPaths, timers, inbox, running, channel,
                 callKind, callType, sends, workerRuns,
                 delivered, collabFailed, camVars>>

\* initializeWorker(type): ok is whether new Worker(...) succeeds
InitializeWorker(type, ok) ==
  /\ type \in workerPaths
  /\ ThreadsReserved < MaxThreads
  /\ IF workers[type] # 0
     THEN /\ TerminateBegin({type}, "init")
          /\ UNCHANGED <<workers, threadType>>
     ELSE /\ ok
          /\ StartWorker(type)
          /\ UNCHANGED <<terminations, inbox, running, channel>>
  /\ NoSettle
  /\ UNCHANGED <<workerPaths, pendingTasks, timers, workersInitialized, shutdownPc, callKind,
                 callType, sends, workerRuns, delivered, collabFailed, camVars>>

----------------------------------------------------------------------------
(* Worker threads (workers/image-worker.js) *)

\* parentPort.on('message', handleMessage): processImage starts
WorkerReceive(i) ==
  /\ i \in liveThreads
  /\ inbox[i] # <<>>
  /\ inbox' = [inbox EXCEPT ![i] = Tail(@)]
  /\ running' = [running EXCEPT ![i] = @ \cup {Head(inbox[i])}]
  /\ NoSettle
  /\ UNCHANGED <<workerPaths, workers, pendingTasks, timers, terminations,
                 threadType, liveThreads, channel, workersInitialized, shutdownPc, callKind,
                 callType, sends, workerRuns, delivered, collabFailed, camVars>>

\* processImage: the upload and the analysis succeed (ok) or one of them
\* throws; either way exactly one response is posted.
processImage(i, id, ok) == [id |-> id, success |-> ok, from |-> i]

WorkerFinish(i, id, ok) ==
  /\ i \in liveThreads
  /\ id \in running[i]
  /\ running' = [running EXCEPT ![i] = @ \ {id}]
  /\ channel' = channel \cup {processImage(i, id, ok)}
  /\ workerRuns' = [workerRuns EXCEPT ![CallOf(id)] = @ + 1]
  /\ collabFailed' = IF ok THEN collabFailed ELSE collabFailed \cup {CallOf(id)}
  /\ NoSettle
  /\ UNCHANGED <<workerPaths, workers, pendingTasks, timers, terminations,
                 threadType, liveThreads, inbox, workersInitialized, shutdownPc, callKind,
                 callType, sends, delivered, camVars>>

----------------------------------------------------------------------------
(* NutritionLensApp: the dispatch facade *)

\* Mutant: only the workersInitialized flag is tested.
UseFallbackOnly_FlagOnly(type) == ~workersInitialized

\* if (!this.workersInitialized || !defaultWorkerManager.isWorkerAvailable(type))
UseFallbackOnly(type) == ~workersInitialized \/ ~isWorkerAvailable(type)

\* return this.processImageSingleThreaded(...) / processAudioSingleThreaded(...)
StartFallback(c, type) ==
  /\ fallbacks' = [fallbacks EXCEPT ![c] = @ + 1]
  /\ callPc' = [callPc EXCEPT ![c] =
                  IF FallbackIsSynchronous(type) THEN "done" ELSE "fallback"]
  /\ outcome' = [outcome EXCEPT ![c] =
                  IF FallbackIsSynchronous(type) THEN "fallback_result" ELSE @]

\* processImageParallel / processAudioParallel up to the first suspension
DispatchCall(c, type) ==
  /\ callKind[c] = "none"
  /\ \A b \in Calls : b < c => callKind[b] # "none"
  /\ callKind' = [callKind EXCEPT ![c] = "facade"]
  /\ callType' = [callType EXCEPT ![c] = type]
  /\ IF UseFallbackOnly(type)
     THEN /\ StartFallback(c, type)
          /\ UNCHANGED <<promise, settles, sends, timers, pendingTasks, inbox>>
     ELSE IF SendTaskGuard(type)
     THEN /\ sendTask(c, type)
          /\ callPc' = [callPc EXCEPT ![c] = "awaiting"]
          /\ UNCHANGED <<settles, fallbacks, outcome>>
     ELSE /\ sends' = [sends EXCEPT ![c] = @ + 1]
          /\ promise' = [promise EXCEPT ![c] = "rej_noworker"]
          /\ settles' = [settles EXCEPT ![c] = @ + 1]
          /\ StartFallback(c, type)
          /\ UNCHANGED <<timers, pendingTasks, inbox>>
  /\ UNCHANGED <<workerPaths, workers, terminations, threadType, liveThreads,
                 running, channel, workersInitialized, shutdownPc, workerRuns, delivered,
                 collabFailed, camVars>>

\* processImageSingleThreaded returns (ok) or throws
\* `Single-threaded image processing failed: ...`
FallbackComplete(c, ok) ==
  /\ callPc[c] = "fallback"
  /\ callPc' = [callPc EXCEPT ![c] = "done"]
  /\ outcome' = [outcome EXCEPT ![c] =
                   IF ok THEN "fallback_result" ELSE "fallback_error"]
  /\ UNCHANGED <<workerPaths, workers, pendingTasks, timers, promise, settles,
                 terminations, threadType, liveThreads, inbox, running, channel,
                 workersInitialized, shutdownPc, callKind, callType, sends, fallbacks,
                 workerRuns, delivered, collabFailed,
                 camVars>>

----------------------------------------------------------------------------
(* NutritionLensApp: the camera lock of a user's session.  Time is the value
   of Date.now() in milliseconds; it advances in steps of the sleep increment
   of waitForCameraAvailability, and every timer fires at the instant it is
   due. *)
Users == {"u1"}

MaxOps      == 3       \* button-press captures started
MaxTicks    == 10      \* clock steps
MaxQuestion == 1       \* characters of a captured question
StartTime   == 20000   \* Date.now() when the session starts

CooldownMs        == 2000
PrewarmTimeoutMs  == 3000
StreamWaitMs      == 5000
StreamTimeoutMs   == 8000
StreamIntervalMs  == 30000
SleepMs           == 500
ShortWaitMs       == 8000
LongWaitMs        == 10000
ShortTimeoutMs    == 10000
RetryTimeoutMs    == 10000
RetryStepMs       == 3000
RecentMs          == 10000
ExtendedTimeoutMs == 12000
maxRetries        == 2

\* An entry of a Map: <<>> when the key is absent, <<v>> when it holds v.
Absent == <<>>
Entry(v) == <<v>>

\* Resolution of the clock: the presses and the camera's answers fall on
\* multiples of it.  A pass of the wait loop that wakes between two instants
\* finds what the pass before it found (every duration it compares is a
\* multiple of the resolution) and sleeps again; the pass taken at the next
\* instant stands for both.
ClockStepMs == 2 * SleepMs

Min(a, b) == IF a < b THEN a ELSE b
Max(a, b) == IF a > b THEN a ELSE b

\* this.lastCameraOperation.get(userId) || 0
LastOperation(u) ==
  IF lastCameraOperation[u] = Absent THEN 0 ELSE lastCameraOperation[u][1]

\* !this.cameraInUse.get(userId)
CameraFree(u) == cameraInUse[u] # Entry(TRUE)

\* Mutant: the pass does not look at the time of the last operation.
waitForCameraAvailability_NoCooldown(u, start, maxWaitMs) ==
  IF ~(now - start < maxWaitMs) THEN [r |-> "timeout", d |-> 0]
  ELSE IF CameraFree(u) THEN [r |-> "available", d |-> 0]
       ELSE [r |-> "sleep", d |-> SleepMs]

\* Mutant: the loop does not look at the time it has been waiting.
waitForCameraAvailability_NoDeadline(u, start, maxWaitMs) ==
  IF CameraFree(u)
  THEN IF now - LastOperation(u) >= CooldownMs
       THEN [r |-> "available", d |-> 0]
       ELSE [r |-> "sleep",
             d |-> Min(CooldownMs - (now - LastOperation(u)), SleepMs)]
  ELSE [r |-> "sleep", d |-> SleepMs]

\* One pass of the loop of waitForCameraAvailability(session, userId, maxWaitMs)
\* entered at `start`: the result, or the length of the sleep before the next pass.
waitForCameraAvailability(u, start, maxWaitMs) ==
  IF ~(now - start < maxWaitMs) THEN [r |-> "timeout", d |-> 0]
  ELSE IF CameraFree(u)
       THEN IF now - LastOperation(u) >= CooldownMs
            THEN [r |-> "available", d |-> 0]
            ELSE [r |-> "sleep",
                  d |-> Min(CooldownMs - (now - LastOperation(u)), SleepMs)]
       ELSE [r |-> "sleep", d |-> SleepMs]

\* capturePhotoWithEnhancedTimeout: the timeout raced against requestPhoto()
adjustedTimeout(u, timeoutMs) ==
  IF now - LastOperation(u) < RecentMs
  THEN Max(timeoutMs, ExtendedTimeoutMs) ELSE timeoutMs

\* const baseTimeout = 10000 + (attempt - 1) * 3000
baseTimeout(attempt) == RetryTimeoutMs + (attempt - 1) * RetryStepMs

\* Mutant: the finally block records the time and leaves the flag.
Release_KeepFlag(u) ==
  /\ UNCHANGED cameraInUse
  /\ lastCameraOperation' = [lastCameraOperation EXCEPT ![u] = Entry(now)]

\* finally { this.cameraInUse.set(userId, false);
\*           this.lastCameraOperation.set(userId, Date.now()); }
Release(u) ==
  /\ cameraInUse' = [cameraInUse EXCEPT ![u] = Entry(FALSE)]
  /\ lastCameraOperation' = [lastCameraOperation EXCEPT ![u] = Entry(now)]

\* The finally block of takePhotoImmediateAsync encloses the early returns too.
ReleaseAfterFailedWait(u) == Release(u)

\* this.capturedQuestions.get(userId) || ''
Question(u) ==
  IF capturedQuestions[u] = Absent THEN <<>> ELSE capturedQuestions[u][1]

\* `question` is the local constant of stopQuestionCaptureAndAnalyzeParallel,
\* read from the buffer when the long press stops the capture; `carried` is
\* the question passed to processImageParallel.
NewOp(kind, u, maxWait) ==
  [kind |-> kind, user |-> u, pc |-> "new", start |-> now, maxWait |-> maxWait,
   wake |-> 0, deadline |-> 0, attempt |-> 0, exit |-> "none",
   question |-> IF kind = "long" THEN Question(u) ELSE <<>>,
   carried |-> <<>>]

\* An operation past its timers: the times it no longer reads are dropped.
\* `exit` records the path on which the operation left the camera:
\* "wait_timeout", "no_photo", "photo" (a photo was captured).
Ended(rec, pc, exit) ==
  [kind |-> rec.kind, user |-> rec.user, pc |-> pc, start |-> 0, maxWait |-> 0,
   wake |-> 0, deadline |-> 0, attempt |-> 0, exit |-> exit,
   question |-> rec.question, carried |-> rec.carried]

NoOp == [kind |-> "none", user |-> "u1", pc |-> "none", start |-> 0,
         maxWait |-> 0, wake |-> 0, deadline |-> 0, attempt |-> 0,
         exit |-> "none", question |-> <<>>, carried |-> <<>>]

OpIds == 1 .. MaxOps
Started == {o \in OpIds : ops[o].kind # "none"}
NextOp == Cardinality(Started) + 1

\* The pass of the wait loop of operation o (a record not yet stored when the
\* operation starts), and what the caller does with its result.
WaitPass(o, rec) ==
  LET u == rec.user
      w == waitForCameraAvailability(u, rec.start, rec.maxWait) IN
  CASE w.r = "sleep" ->
         /\ ops' = [ops EXCEPT ![o] = [rec EXCEPT !.pc = "waiting",
                                                  !.wake = now + w.d]]
         /\ UNCHANGED <<cameraInUse, lastCameraOperation, inFlight,
                        capturedQuestions>>
    [] w.r = "available" ->
         \* this.cameraInUse.set(userId, true), then the first requestPhoto()
         \* (the timer tick captures without setting the flag)
         /\ cameraInUse' = IF rec.kind = "stream" THEN cameraInUse
                           ELSE [cameraInUse EXCEPT ![u] = Entry(TRUE)]
         /\ inFlight' = [inFlight EXCEPT ![u] = @ \cup {o}]
         /\ ops' = [ops EXCEPT ![o] =
              [rec EXCEPT !.pc = "capturing", !.attempt = 1,
                          !.start = 0, !.wake = 0,
                          !.deadline = now + adjustedTimeout(u,
                              IF rec.kind = "short" THEN ShortTimeoutMs
                              ELSE IF rec.kind = "stream" THEN StreamTimeoutMs
                              ELSE baseTimeout(1))]]
         /\ UNCHANGED <<lastCameraOperation, capturedQuestions>>
    [] w.r = "timeout" /\ rec.kind = "short" ->
         \* takePhotoImmediateAsync: `return` inside try, then finally
         /\ ReleaseAfterFailedWait(u)
         /\ ops' = [ops EXCEPT ![o] = Ended(rec, "done", "wait_timeout")]
         /\ UNCHANGED <<inFlight, capturedQuestions>>
    [] w.r = "timeout" /\ rec.kind = "stream" ->
         \* the interval callback skips this photo
         /\ ops' = [ops EXCEPT ![o] = Ended(rec, "done", "wait_timeout")]
         /\ UNCHANGED <<cameraInUse, lastCameraOperation, inFlight,
                        capturedQuestions>>
    [] w.r = "timeout" /\ rec.kind = "long" ->
         \* capturePhotoWithRetryOptimized returns null before its try;
         \* stopQuestionCaptureAndAnalyzeParallel returns through its finally
         /\ capturedQuestions' = [capturedQuestions EXCEPT ![u] = Absent]
         /\ ops' = [ops EXCEPT ![o] = Ended(rec, "done", "wait_timeout")]
         /\ UNCHANGED <<cameraInUse, lastCameraOperation, inFlight>>

\* A timer of a capture is due: it was created before any sleep of a wait loop
\* that is due at the same instant, and fires first.
CaptureTimerDue == \E o \in OpIds : ops[o].pc = "capturing" /\ ops[o].deadline <= now
WaitTimerDue    == \E o \in OpIds : ops[o].pc = "waiting" /\ ops[o].wake <= now

\* The 3 s timeout of prewarmCameraOptimized is due.
PrewarmTimerDue ==
  \E x \in DOMAIN sessionPc : sessionPc[x] = "prewarm" /\ prewarmDeadline[x] <= now

\* The event loop runs the timers that are due before it takes the next event
\* of the session (a button press, a transcription, an answer of the camera).
TimersRun == ~CaptureTimerDue /\ ~WaitTimerDue /\ ~PrewarmTimerDue

\* String.prototype.trim on a sequence of characters
RECURSIVE TrimLeft(_)
TrimLeft(s) == IF s # <<>> /\ Head(s) = " " THEN TrimLeft(Tail(s)) ELSE s
RECURSIVE TrimRight(_)
TrimRight(s) ==
  IF s # <<>> /\ s[Len(s)] = " " THEN TrimRight(SubSeq(s, 1, Len(s) - 1)) ELSE s
Trim(s) == TrimRight(TrimLeft(s))

Fragments == {<<"a">>, <<" ">>}

\* this.isCapturingQuestion.get(userId) && data.isFinal
Accepts(u, isFinal) == isCapturingQuestion[u] = Entry(TRUE) /\ isFinal

\* session.events.onTranscription handler
Transcription(u, text, isFinal) ==
  /\ TimersRun
  /\ Len(Trim(Question(u) \o <<" ">> \o Trim(text))) <= MaxQuestion
  /\ IF Accepts(u, isFinal)
     THEN capturedQuestions' =
            [capturedQuestions EXCEPT
               ![u] = Entry(Trim(Question(u) \o <<" ">> \o Trim(text)))]
     ELSE UNCHANGED capturedQuestions
  /\ UNCHANGED <<now, cameraInUse, lastCameraOperation, isCapturingQuestion, ops,
                 inFlight, wmVars, sessVars>>

\* Mutant: the stop of a capture never takes the no-question exit.
NoQuestion_Never(u) == FALSE

\* stopQuestionCaptureAndAnalyzeParallel: !question.trim()
NoQuestion(u) == Trim(Question(u)) = <<>>

\* onButtonPress, pressType other than 'long': takePhotoImmediate
ShortPress(u) ==
  /\ TimersRun
  /\ NextOp <= MaxOps
  /\ WaitPass(NextOp, NewOp("short", u, ShortWaitMs))
  /\ UNCHANGED <<now, isCapturingQuestion, wmVars, sessVars>>

\* Mutant: the button handler never sees a capture in progress.
Capturing_Never(u) == FALSE

\* onButtonPress: this.isCapturingQuestion.get(userId)
Capturing(u) == isCapturingQuestion[u] = Entry(TRUE)

\* onButtonPress, pressType 'long': startQuestionCapture when no question is
\* being captured, stopQuestionCaptureAndAnalyzeParallel otherwise
LongPress(u) ==
  /\ TimersRun
  /\ IF ~Capturing(u)
       THEN /\ isCapturingQuestion' = [isCapturingQuestion EXCEPT ![u] = Entry(TRUE)]
            /\ capturedQuestions' = [capturedQuestions EXCEPT ![u] = Entry(<<>>)]
            /\ UNCHANGED <<now, cameraInUse, lastCameraOperation, ops, inFlight, wmVars, sessVars>>
       ELSE /\ isCapturingQuestion' = [isCapturingQuestion EXCEPT ![u] = Entry(FALSE)]
            /\ IF NoQuestion(u)
               THEN UNCHANGED <<cameraInUse, lastCameraOperation, ops, inFlight,
                                capturedQuestions>>
               ELSE /\ NextOp <= MaxOps
                    /\ WaitPass(NextOp, NewOp("long", u, LongWaitMs))
            /\ UNCHANGED <<now, wmVars, sessVars>>

\* A sleep of the wait loop ends.
WaitWake(o) ==
  /\ ops[o].pc = "waiting"
  /\ ops[o].wake <= now
  /\ ~CaptureTimerDue
  /\ WaitPass(o, ops[o])
  /\ UNCHANGED <<now, isCapturingQuestion, wmVars, sessVars>>

\* capturePhotoWithEnhancedTimeout returned null to the retry loop of
\* capturePhotoWithRetryOptimized: next attempt, or null through the finally.
RetryOrGiveUp(o) ==
  LET u == ops[o].user IN
  IF ops[o].attempt < maxRetries
  THEN /\ ops' = [ops EXCEPT ![o].attempt = @ + 1,
                   ![o].deadline =
                      now + adjustedTimeout(u, baseTimeout(ops[o].attempt + 1))]
       /\ UNCHANGED <<cameraInUse, lastCameraOperation, inFlight, capturedQuestions>>
  ELSE /\ Release(u)
       /\ inFlight' = [inFlight EXCEPT ![u] = @ \ {o}]
       /\ capturedQuestions' = [capturedQuestions EXCEPT ![u] = Absent]
       /\ ops' = [ops EXCEPT ![o] = Ended(ops[o], "done", "no_photo")]

\* The capture of operation o ended without a photo (timeout, or requestPhoto
\* threw): capturePhotoWithEnhancedTimeout returns null.
CaptureNull(o) ==
  LET u == ops[o].user IN
  IF ops[o].kind = "short"
  THEN /\ Release(u)
       /\ inFlight' = [inFlight EXCEPT ![u] = @ \ {o}]
       /\ ops' = [ops EXCEPT ![o] = Ended(ops[o], "done", "no_photo")]
       /\ UNCHANGED capturedQuestions
  ELSE IF ops[o].kind = "stream"
  THEN /\ inFlight' = [inFlight EXCEPT ![u] = @ \ {o}]
       /\ ops' = [ops EXCEPT ![o] = Ended(ops[o], "done", "no_photo")]
       /\ UNCHANGED <<cameraInUse, lastCameraOperation, capturedQuestions>>
  ELSE RetryOrGiveUp(o)

\* The timeout of the race fires.
CaptureTimeout(o) ==
  /\ ops[o].pc = "capturing"
  /\ ops[o].deadline <= now
  /\ CaptureNull(o)
  /\ UNCHANGED <<now, isCapturingQuestion, wmVars, sessVars>>

\* requestPhoto() rejects before the timeout.
PhotoFails(o) ==
  /\ TimersRun
  /\ ops[o].pc = "capturing"
  /\ now < ops[o].deadline
  /\ CaptureNull(o)
  /\ UNCHANGED <<now, isCapturingQuestion, wmVars, sessVars>>

\* Mutant: the dispatch reads the buffer again instead of the local constant.
DispatchedQuestion_ReadsBuffer(o) == Question(ops[o].user)

\* The question argument of processImageParallel in
\* stopQuestionCaptureAndAnalyzeParallel.
DispatchedQuestion(o) == ops[o].question

\* requestPhoto() resolves before the timeout.
PhotoArrives(o) ==
  LET u == ops[o].user IN
  /\ TimersRun
  /\ ops[o].pc = "capturing"
  /\ now < ops[o].deadline
  /\ inFlight' = [inFlight EXCEPT ![u] = @ \ {o}]
  /\ IF ops[o].kind = "short"
     THEN \* await this.processNutritionAnalysisWorkflow(...): the flag stays set
          /\ ops' = [ops EXCEPT ![o] = Ended(ops[o], "processing", "photo")]
          /\ UNCHANGED <<cameraInUse, lastCameraOperation, nextPhotoTime>>
     ELSE IF ops[o].kind = "stream"
     THEN \* this.nextPhotoTime.set(userId, Date.now());
          \* this.lastCameraOperation.set(userId, Date.now());
          /\ ops' = [ops EXCEPT ![o] = Ended(ops[o], "processing", "photo")]
          /\ nextPhotoTime' = [nextPhotoTime EXCEPT ![u] = Entry(now)]
          /\ lastCameraOperation' = [lastCameraOperation EXCEPT ![u] = Entry(now)]
          /\ UNCHANGED cameraInUse
     ELSE \* capturePhotoWithRetryOptimized returns the photo through its finally
          \* ... and processImageParallel(photo, userId, question) is called
          /\ Release(u)
          /\ ops' = [ops EXCEPT ![o] =
                       [Ended(ops[o], "dispatch", "photo")
                          EXCEPT !.carried = DispatchedQuestion(o)]]
          /\ UNCHANGED nextPhotoTime
  /\ UNCHANGED <<now, isCapturingQuestion, capturedQuestions, wmVars,
                 userSessions, isStreamingPhotos, cameraReady, cleanupHandlers,
                 subscribed, sessionPc, prewarmDeadline, stopped>>

\* processNutritionAnalysisWorkflow returns or throws; takePhotoImmediateAsync
\* ends through its finally.
WorkflowDone(o) ==
  /\ TimersRun
  /\ ops[o].pc = "processing"
  /\ IF ops[o].kind = "stream"
     THEN UNCHANGED <<cameraInUse, lastCameraOperation>>
     ELSE Release(ops[o].user)
  /\ ops' = [ops EXCEPT ![o] = Ended(ops[o], "done", "photo")]
  /\ UNCHANGED <<now, isCapturingQuestion, capturedQuestions, inFlight, wmVars, sessVars>>

\* Promise.allSettled([processImageParallel, processAudioParallel]) settles;
\* stopQuestionCaptureAndAnalyzeParallel ends through its finally.
DispatchDone(o) ==
  /\ TimersRun
  /\ ops[o].pc = "dispatch"
  /\ capturedQuestions' = [capturedQuestions EXCEPT ![ops[o].user] = Absent]
  /\ ops' = [ops EXCEPT ![o] = Ended(ops[o], "done", "photo")]
  /\ UNCHANGED <<now, cameraInUse, lastCameraOperation, isCapturingQuestion,
                 inFlight, wmVars, sessVars>>

\* Some operation sleeps in the wait loop or races a capture against its timeout.
TimersArmed ==
  \/ \E o \in OpIds : ops[o].pc \in {"waiting", "capturing"}
  \/ \E x \in DOMAIN sessionPc : sessionPc[x] = "prewarm"

\* Some operation has a timer armed, or the last camera operation is recent
\* enough to be read by the cooldown and by adjustedTimeout.
TimeMatters ==
  \/ TimersArmed
  \/ \E u \in Users : now - LastOperation(u) < RecentMs

\* Time passes; no timer that is due is skipped.  When no duration is being
\* measured the instant of the next event is immaterial and the clock stands.
Elapse ==
  /\ TimersRun
  /\ TimeMatters
  /\ now' = now + ClockStepMs
  /\ UNCHANGED <<cameraInUse, lastCameraOperation, isCapturingQuestion,
                 capturedQuestions, ops, inFlight, wmVars, sessVars>>

\* Time passes within the horizon of the clock, and beyond it for as long as
\* a timer is armed.
Run ==
  /\ now < StartTime + MaxTicks * ClockStepMs \/ TimersArmed
  /\ Elapse

\* Time passes within the horizon of the clock.
Tick ==
  /\ now < StartTime + MaxTicks * ClockStepMs
  /\ TimersRun
  /\ TimeMatters
  /\ now' = now + ClockStepMs
  /\ UNCHANGED <<cameraInUse, lastCameraOperation, isCapturingQuestion,
                 capturedQuestions, ops, inFlight, wmVars, sessVars>>

----------------------------------------------------------------------------
(* The life of a session: onSession, its listeners and interval, onStop *)

MaxSessions   == 2
MaxSessionOps == 2
MaxSessionTicks == 5

\* The sessions of the user, one after the other.
Sessions == 1 .. MaxSessions

UserOf(s) == CHOOSE u \in Users : TRUE

\* What onSession registers for a session on a device with a camera, a
\* microphone and a button: two listeners and the interval of
\* setupStreamingPhotoInterval.  Each comes with its cleanup handler.
Handlers == {"transcription", "button", "interval"}

\* this.cleanupHandlers.get(sessionId) || []
HandlersOf(s) == IF cleanupHandlers[s] = Absent THEN {} ELSE cleanupHandlers[s][1]

\* Mutant: onSession switches the streaming of photos on.
StreamingAtStart_On == Entry(TRUE)

\* this.isStreamingPhotos.set(userId, false), the only write of a value to
\* the map
StreamingAtStart == Entry(FALSE)

\* onSession up to `await this.prewarmCameraOptimized(session, userId)`
OnSessionBegin(s) ==
  /\ TimersRun
  /\ sessionPc[s] = "none"
  /\ \A t \in Sessions : t < s => stopped[t]
  /\ userSessions' = [userSessions EXCEPT ![UserOf(s)] = Entry(s)]
  /\ cleanupHandlers' = [cleanupHandlers EXCEPT ![s] = Entry({})]
  /\ isStreamingPhotos' = [isStreamingPhotos EXCEPT ![UserOf(s)] = StreamingAtStart]
  /\ nextPhotoTime' = [nextPhotoTime EXCEPT ![UserOf(s)] = Entry(now)]
  /\ cameraReady' = [cameraReady EXCEPT ![UserOf(s)] = Entry(FALSE)]
  /\ isCapturingQuestion' = [isCapturingQuestion EXCEPT ![UserOf(s)] = Entry(FALSE)]
  /\ capturedQuestions' = [capturedQuestions EXCEPT ![UserOf(s)] = Entry(<<>>)]
  /\ sessionPc' = [sessionPc EXCEPT ![s] = "prewarm"]
  /\ prewarmDeadline' = [prewarmDeadline EXCEPT ![s] = now + PrewarmTimeoutMs]
  /\ UNCHANGED <<now, cameraInUse, lastCameraOperation, ops, inFlight,
                 subscribed, stopped, wmVars>>

\* prewarmCameraOptimized settles (the photo arrived: ready; it failed or the
\* 3 s timeout won the race: not ready) and onSession goes on: it registers
\* the transcription listener, the button listener and the interval, each
\* with its cleanup handler.
PrewarmDone(s, ready) ==
  /\ sessionPc[s] = "prewarm"
  /\ prewarmDeadline[s] <= now => ~ready
  /\ cameraReady' = [cameraReady EXCEPT ![UserOf(s)] = Entry(ready)]
  /\ subscribed' = [subscribed EXCEPT ![s] = Handlers]
  /\ cleanupHandlers' = [cleanupHandlers EXCEPT ![s] = Entry(HandlersOf(s) \cup Handlers)]
  /\ sessionPc' = [sessionPc EXCEPT ![s] = "running"]
  /\ prewarmDeadline' = [prewarmDeadline EXCEPT ![s] = 0]
  /\ UNCHANGED <<now, cameraInUse, lastCameraOperation, isCapturingQuestion,
                 capturedQuestions, ops, inFlight, userSessions,
                 isStreamingPhotos, nextPhotoTime, stopped, wmVars>>

\* onStop(sessionId, userId, reason): the cleanup handlers recorded for the
\* session run, then the entries of the user are deleted from the eight maps.
OnStop(s) ==
  /\ TimersRun
  /\ sessionPc[s] # "none"
  /\ ~stopped[s]
  /\ subscribed' = [subscribed EXCEPT ![s] = @ \ HandlersOf(s)]
  /\ cleanupHandlers' = [cleanupHandlers EXCEPT ![s] = Absent]
  /\ isStreamingPhotos' = [isStreamingPhotos EXCEPT ![UserOf(s)] = Absent]
  /\ nextPhotoTime' = [nextPhotoTime EXCEPT ![UserOf(s)] = Absent]
  /\ cameraReady' = [cameraReady EXCEPT ![UserOf(s)] = Absent]
  /\ cameraInUse' = [cameraInUse EXCEPT ![UserOf(s)] = Absent]
  /\ lastCameraOperation' = [lastCameraOperation EXCEPT ![UserOf(s)] = Absent]
  /\ userSessions' = [userSessions EXCEPT ![UserOf(s)] = Absent]
  /\ isCapturingQuestion' = [isCapturingQuestion EXCEPT ![UserOf(s)] = Absent]
  /\ capturedQuestions' = [capturedQuestions EXCEPT ![UserOf(s)] = Absent]
  /\ stopped' = [stopped EXCEPT ![s] = TRUE]
  /\ UNCHANGED <<now, ops, inFlight, sessionPc, prewarmDeadline, wmVars>>

\* The glasses deliver events to the listeners of a connected session.
Connected(s) == sessionPc[s] = "running" /\ ~stopped[s]

\* A button press reaches the button listener of the session.
SessionButton(s, long) ==
  /\ Connected(s)
  /\ "button" \in subscribed[s]
  /\ NextOp <= MaxSessionOps
  /\ IF long THEN LongPress(UserOf(s)) ELSE ShortPress(UserOf(s))

\* A transcription reaches the transcription listener of the session.
SessionTranscription(s, text, isFinal) ==
  /\ Connected(s)
  /\ "transcription" \in subscribed[s]
  /\ Transcription(UserOf(s), text, isFinal)

\* The callback of the 2 s interval of setupStreamingPhotoInterval, which runs
\* for as long as the interval has not been cleared.
PollTick(s) ==
  /\ TimersRun
  /\ "interval" \in subscribed[s]
  /\ IF /\ isStreamingPhotos[UserOf(s)] = Entry(TRUE)
        /\ now > (IF nextPhotoTime[UserOf(s)] = Absent THEN 0
                  ELSE nextPhotoTime[UserOf(s)][1])
     THEN /\ NextOp <= MaxSessionOps
          /\ nextPhotoTime' = [nextPhotoTime EXCEPT
                                 ![UserOf(s)] = Entry(now + StreamIntervalMs)]
          /\ WaitPass(NextOp, NewOp("stream", UserOf(s), StreamWaitMs))
          /\ UNCHANGED <<now, isCapturingQuestion, userSessions,
                         isStreamingPhotos, cameraReady, cleanupHandlers,
                         subscribed, sessionPc, prewarmDeadline, stopped, wmVars>>
     ELSE UNCHANGED vars

\* The clock of the life of the sessions is read every 2 s, the period of the
\* interval of setupStreamingPhotoInterval.
SessionClockStepMs == 2 * ClockStepMs

\* Time passes in the life of the sessions, within the horizon of their clock;
\* no timer that is due is skipped.
SessionRun ==
  /\ now < StartTime + MaxSessionTicks * SessionClockStepMs
  /\ TimersRun
  /\ TimeMatters
  /\ now' = now + SessionClockStepMs
  /\ UNCHANGED <<cameraInUse, lastCameraOperation, isCapturingQuestion,
                 capturedQuestions, ops, inFlight, wmVars, sessVars>>

\* No session has started: every map is empty.
NoSessionYet ==
  /\ userSessions = [u \in Users |-> Absent]
  /\ isStreamingPhotos = [u \in Users |-> Absent]
  /\ nextPhotoTime = [u \in Users |-> Absent]
  /\ cameraReady = [u \in Users |-> Absent]
  /\ cameraInUse = [u \in Users |-> Absent]
  /\ lastCameraOperation = [u \in Users |-> Absent]
  /\ isCapturingQuestion = [u \in Users |-> Absent]
  /\ capturedQuestions = [u \in Users |-> Absent]
  /\ cleanupHandlers = [s \in Sessions |-> Absent]
  /\ subscribed = [s \in Sessions |-> {}]
  /\ sessionPc = [s \in Sessions |-> "none"]
  /\ prewarmDeadline = [s \in Sessions |-> 0]
  /\ stopped = [s \in Sessions |-> FALSE]

\* The first session has been set up by onSession and is connected; its
\* prewarm photo arrived (cameraReady is written and never read).
SessionRunning ==
  /\ userSessions = [u \in Users |-> Entry(1)]
  /\ isStreamingPhotos = [u \in Users |-> Entry(FALSE)]
  /\ nextPhotoTime = [u \in Users |-> Entry(StartTime)]
  /\ cameraReady = [u \in Users |-> Entry(TRUE)]
  /\ cleanupHandlers = [s \in Sessions |-> IF s = 1 THEN Entry(Handlers) ELSE Absent]
  /\ subscribed = [s \in Sessions |-> IF s = 1 THEN Handlers ELSE {}]
  /\ sessionPc = [s \in Sessions |-> IF s = 1 THEN "running" ELSE "none"]
  /\ prewarmDeadline = [s \in Sessions |-> 0]
  /\ stopped = [s \in Sessions |-> FALSE]

\* The state of the maps once onSession has run for the user, on a device that
\* reports a camera, a microphone and a button.
onSession ==
  /\ cameraInUse = [u \in Users |-> Absent]
  /\ lastCameraOperation = [u \in Users |-> Absent]
  /\ isCapturingQuestion = [u \in Users |-> Entry(FALSE)]
  /\ capturedQuestions = [u \in Users |-> Entry(<<>>)]

CamAtRest ==
  /\ now = StartTime
  /\ onSession
  /\ ops = [o \in OpIds |-> NoOp]
  /\ inFlight = [u \in Users |-> {}]
  /\ SessionRunning

----------------------------------------------------------------------------
(* Specification of the worker manager and the dispatch facade *)

\* The constructor runs initializeWorkers(): initializeDefaultWorkers registers
\* both types and initializes 'image', then 'audio'; no worker exists yet, so
\* no step of it waits for an event.  imageReady / audioReady are the results
\* of the two initializeWorker calls.
initializeDefaultWorkers(imageReady, audioReady) ==
  /\ workerPaths = Types
  /\ threadType = (IF imageReady THEN <<Image>> ELSE <<>>)
                  \o (IF audioReady THEN <<Audio>> ELSE <<>>)
  /\ workers = [t \in Types |->
                  IF t = Image THEN (IF imageReady THEN 1 ELSE 0)
                  ELSE IF ~audioReady THEN 0
                  ELSE IF imageReady THEN 2 ELSE 1]
  /\ liveThreads = 1 .. Len(threadType)
  /\ workersInitialized = (imageReady /\ audioReady)

\* The fields of a WorkerManager and of the facade before any call is made.
NoCallsYet ==
  /\ pendingTasks = {}
  /\ timers = {}
  /\ terminations = {}
  /\ inbox = [i \in Insts |-> <<>>]
  /\ running = [i \in Insts |-> {}]
  /\ channel = {}
  /\ promise = [c \in Calls |-> "none"]
  /\ settles = [c \in Calls |-> 0]
  /\ callKind = [c \in Calls |-> "none"]
  /\ callType = [c \in Calls |-> Image]
  /\ callPc = [c \in Calls |-> "idle"]
  /\ sends = [c \in Calls |-> 0]
  /\ fallbacks = [c \in Calls |-> 0]
  /\ workerRuns = [c \in Calls |-> 0]
  /\ outcome = [c \in Calls |-> "none"]
  /\ delivered = [c \in Calls |-> 0]
  /\ collabFailed = {}
  /\ shutdownPc = "idle"

InitWM ==
  /\ \E imageReady, audioReady \in BOOLEAN :
       initializeDefaultWorkers(imageReady, audioReady)
  /\ NoCallsYet
  /\ CamAtRest

AllTaskIds == {generateTaskId(t, c) : t \in Types, c \in Calls}

NextWM ==
  \/ \E c \in Calls, t \in Types : DispatchCall(c, t)
  \/ \E c \in Calls, t \in Types : SendTaskDirect(c, t)
  \/ \E c \in Calls, ok \in BOOLEAN : FallbackComplete(c, ok)
  \/ \E id \in AllTaskIds : TimeoutFire(id)
  \/ \E r \in channel : HandleWorkerMessage(r)
  \/ \E i \in Insts : WorkerReceive(i)
  \/ \E i \in Insts, id \in AllTaskIds, ok \in BOOLEAN : WorkerFinish(i, id, ok)
  \/ \E i \in Insts : WorkerError(i)
  \/ \E i \in Insts : WorkerExit(i)
  \/ \E t \in Types : TerminateWorker(t)
  \/ TerminateAll
  \/ \E term \in terminations, ok \in BOOLEAN : TerminateDone(term, ok)
  \/ \E t \in Types, ok \in BOOLEAN : InitializeWorker(t, ok)

SpecWM == InitWM /\ [][NextWM]_vars

\* Timers of the event loop fire: an armed sendTask timeout is not postponed
\* for ever.
FairSpecWM == SpecWM /\ WF_vars(\E id \in AllTaskIds : TimeoutFire(id))

----------------------------------------------------------------------------
(* Specification of the application's use of the worker manager: the tasks
   go through the dispatch facade, the workers are those the constructor
   started, and shutdown() ends them.  The application makes no other call
   of initializeWorker, terminateWorker or terminateAll. *)

NextApp ==
  \/ \E c \in Calls, t \in Types : DispatchCall(c, t)
  \/ \E c \in Calls, ok \in BOOLEAN : FallbackComplete(c, ok)
  \/ \E id \in AllTaskIds : TimeoutFire(id)
  \/ \E r \in channel : HandleWorkerMessage(r)
  \/ \E i \in Insts : WorkerReceive(i)
  \/ \E i \in Insts, id \in AllTaskIds, ok \in BOOLEAN : WorkerFinish(i, id, ok)
  \/ \E i \in Insts : WorkerError(i)
  \/ \E i \in Insts : WorkerExit(i)
  \/ \E term \in terminations, ok \in BOOLEAN : TerminateDone(term, ok)
  \/ shutdown

SpecApp == InitWM /\ [][NextApp]_vars

----------------------------------------------------------------------------
(* Specification of the worker pool under callers that do not await
   initializeWorker before they call it again *)

\* new Worker(...) of one of several initializeWorker calls resumed in the same
\* turn: the thread starts and the record of the type is overwritten.
StartAlso(type, ok, st) ==
  IF ok
  THEN [threadType |-> Append(st.threadType, type),
        liveThreads |-> st.liveThreads \cup {Len(st.threadType) + 1},
        workers |-> [st.workers EXCEPT ![type] = Len(st.threadType) + 1]]
  ELSE st

\* Two calls of initializeWorker(type) made in the same turn of the event
\* loop, for a type that has no worker.  Each call passes the path lookup and
\* awaits terminateWorker(type), which finds nothing to terminate; no other
\* event runs between the microtasks that resume the two calls, and each
\* resumed call runs new Worker(...) (ok1, ok2: whether it succeeds) and
\* this.workers.set(type, worker).
InitializeWorkerOverlapped(type, ok1, ok2) ==
  LET st0 == [threadType |-> threadType, liveThreads |-> liveThreads,
              workers |-> workers]
      st2 == StartAlso(type, ok2, StartAlso(type, ok1, st0)) IN
  /\ type \in workerPaths
  /\ workers[type] = 0
  /\ ThreadsReserved + 2 <= MaxThreads
  /\ ok1 \/ ok2
  /\ threadType' = st2.threadType
  /\ liveThreads' = st2.liveThreads
  /\ workers' = st2.workers
  /\ NoSettle
  /\ UNCHANGED <<workerPaths, pendingTasks, timers, terminations, inbox, running,
                 channel, workersInitialized, shutdownPc, callKind, callType, sends,
                 workerRuns, delivered, collabFailed, camVars>>

NextPool ==
  \/ NextWM
  \/ \E t \in Types, ok1, ok2 \in BOOLEAN : InitializeWorkerOverlapped(t, ok1, ok2)

SpecPool == InitWM /\ [][NextPool]_vars

----------------------------------------------------------------------------
(* Specification of the camera lock: button presses, transcriptions, the
   timers and the camera's answers of one session. *)

InitCam ==
  /\ initializeDefaultWorkers(TRUE, TRUE)
  /\ NoCallsYet
  /\ CamAtRest

NextCam ==
  \/ \E u \in Users : ShortPress(u)
  \/ \E u \in Users : LongPress(u)
  \/ \E u \in Users, text \in Fragments, isFinal \in BOOLEAN :
       Transcription(u, text, isFinal)
  \/ \E o \in OpIds : WaitWake(o)
  \/ \E o \in OpIds : CaptureTimeout(o)
  \/ \E o \in OpIds : PhotoFails(o)
  \/ \E o \in OpIds : PhotoArrives(o)
  \/ \E o \in OpIds : WorkflowDone(o)
  \/ \E o \in OpIds : DispatchDone(o)
  \/ Tick

SpecCam == InitCam /\ [][NextCam]_vars

----------------------------------------------------------------------------
(* Specification of the sessions of a user: start, use, stop, start again *)

InitSession ==
  /\ initializeDefaultWorkers(TRUE, TRUE)
  /\ NoCallsYet
  /\ now = StartTime
  /\ NoSessionYet
  /\ ops = [o \in OpIds |-> NoOp]
  /\ inFlight = [u \in Users |-> {}]

NextSession ==
  \/ \E s \in Sessions : OnSessionBegin(s)
  \/ \E s \in Sessions, ready \in BOOLEAN : PrewarmDone(s, ready)
  \/ \E s \in Sessions : OnStop(s)
  \/ \E s \in Sessions, long \in BOOLEAN : SessionButton(s, long)
  \/ \E s \in Sessions, text \in Fragments, isFinal \in BOOLEAN :
       SessionTranscription(s, text, isFinal)
  \/ \E s \in Sessions : PollTick(s)
  \/ \E o \in OpIds : WaitWake(o)
  \/ \E o \in OpIds : CaptureTimeout(o)
  \/ \E o \in OpIds : PhotoFails(o)
  \/ \E o \in OpIds : PhotoArrives(o)
  \/ \E o \in OpIds : WorkflowDone(o)
  \/ \E o \in OpIds : DispatchDone(o)
  \/ SessionRun

SpecSession == InitSession /\ [][NextSession]_vars

\* The same session with fewer captures, and a clock that runs beyond its
\* horizon while a timer is armed, so that every wait and every capture
\* reaches its timeout.
MaxPressOps == 2

NextPress ==
  \/ \E u \in Users : Cardinality(Started) < MaxPressOps /\ ShortPress(u)
  \/ \E u \in Users :
       /\ isCapturingQuestion[u] = Entry(TRUE) => Cardinality(Started) < MaxPressOps
       /\ LongPress(u)
  \/ \E u \in Users, text \in Fragments, isFinal \in BOOLEAN :
       Transcription(u, text, isFinal)
  \/ \E o \in OpIds : WaitWake(o)
  \/ \E o \in OpIds : CaptureTimeout(o)
  \/ \E o \in OpIds : PhotoFails(o)
  \/ \E o \in OpIds : PhotoArrives(o)
  \/ \E o \in OpIds : WorkflowDone(o)
  \/ \E o \in OpIds : DispatchDone(o)
  \/ Run

SpecPress == InitCam /\ [][NextPress]_vars

\* Time passes, the timers of the event loop fire, and the nutrition analysis
\* workflow (upload, analysis, persistence) returns or throws.
FairSpecPress ==
  /\ SpecPress
  /\ WF_vars(\/ Run
             \/ \E o \in OpIds : CaptureTimeout(o)
             \/ \E o \in OpIds : WaitWake(o)
             \/ \E o \in OpIds : WorkflowDone(o))

----------------------------------------------------------------------------
(* Properties of the worker manager and the dispatch facade *)

TaskIdOf(c) == generateTaskId(callType[c], c)
Settled(c) == promise[c] \notin {"none", "pending"}
RejectedBySend(c) == promise[c] \in {"rej_timeout", "rej_failed", "rej_error"}
FromFallback(c) == outcome[c] \in {"fallback_result", "fallback_error"}

\* C2: the promise of a task is settled exactly once, by the response or by
\* the timeout, whichever comes first: resolve/reject is invoked at most once,
\* a promise settled by a response has its timeout disarmed, and once the
\* promise is settled no later step (a late response, a timeout) changes the
\* promise or the pending-task map.
C2_SettledExactlyOnce ==
  [][\A c \in Calls :
       /\ settles'[c] <= 1
       /\ (promise'[c] \notin {"none", "pending"}) <=> (settles'[c] = 1)
       /\ promise'[c] \in {"resolved", "rej_failed"} =>
            /\ delivered'[c] >= 1
            /\ generateTaskId(callType'[c], c) \notin timers'
       /\ Settled(c) =>
            /\ promise'[c] = promise[c]
            /\ TaskIdOf(c) \notin pendingTasks /\ TaskIdOf(c) \notin pendingTasks'
       /\ (Settled(c) /\ delivered'[c] # delivered[c]) =>
            UNCHANGED <<promise, pendingTasks>>]_vars

\* C2 witness: a task timed out, its response arrived afterwards and was
\* handled, and the facade went on with the fallback.
C2_Witness ==
  \E c \in Calls :
    /\ callKind[c] = "facade"
    /\ promise[c] = "rej_timeout"
    /\ delivered[c] >= 1
    /\ settles[c] = 1
    /\ fallbacks[c] = 1

\* C3: when the worker is available and sendTask rejects (timeout, worker
\* error or failure response), the facade runs the in-process fallback exactly
\* once and the caller gets the fallback's result or the fallback's error.
C3_FallbackOnceAfterReject ==
  \A c \in Calls :
    /\ fallbacks[c] <= 1
    /\ (callKind[c] = "facade" /\ sends[c] = 1 /\ RejectedBySend(c)) =>
         /\ fallbacks[c] = 1
         /\ callPc[c] \in {"fallback", "done"}
         /\ callPc[c] = "done" => FromFallback(c)

\* C3 witness: sendTask was rejected by a worker error and the fallback failed
\* too; the caller holds the fallback's error.
C3_Witness ==
  \E c \in Calls :
    /\ callKind[c] = "facade"
    /\ promise[c] = "rej_error"
    /\ callPc[c] = "done"
    /\ fallbacks[c] = 1
    /\ outcome[c] = "fallback_error"

\* C4: a dispatch for a type that has no worker runs the fallback only: the
\* step calls no sendTask, creates no pending entry, arms no timeout and posts
\* nothing, and the call never sends later.
C4_NoSendWithoutWorker ==
  [][\A c \in Calls :
       /\ (callKind[c] = "none" /\ callKind'[c] = "facade"
           /\ ~isWorkerAvailable(callType'[c])) =>
            /\ sends'[c] = 0
            /\ fallbacks'[c] = 1
            /\ promise'[c] = "none"
            /\ UNCHANGED <<pendingTasks, timers, inbox>>
       /\ (callKind[c] = "facade" /\ sends[c] = 0) =>
            /\ sends'[c] = 0
            /\ promise'[c] = "none"
            /\ TaskIdOf(c) \notin pendingTasks']_vars

\* C4 witness: a dispatch completed through the fallback while the map held no
\* worker of its type.
C4_Witness ==
  \E c \in Calls :
    /\ callKind[c] = "facade"
    /\ ~isWorkerAvailable(callType[c])
    /\ sends[c] = 0
    /\ fallbacks[c] = 1
    /\ callPc[c] = "done"
    /\ outcome[c] = "fallback_result"

\* C5 as claimed: a collaborator failure inside the worker reaches the caller
\* of the facade and triggers no fallback.
C5_Original ==
  \A c \in Calls :
    (callKind[c] = "facade" /\ c \in collabFailed /\ promise[c] = "rej_failed")
      => fallbacks[c] = 0

\* C5 amended: a collaborator failure inside the worker comes back as a failure
\* response; when it rejects sendTask the facade runs the fallback once, so the
\* operation has been executed twice, and the caller gets the fallback's
\* result or error, never the worker's.
C5_CollaboratorFailureFallsBack ==
  \A c \in Calls :
    (callKind[c] = "facade" /\ c \in collabFailed) =>
      /\ promise[c] # "resolved"
      /\ promise[c] = "rej_failed" => (fallbacks[c] = 1 /\ workerRuns[c] = 1)
      /\ callPc[c] = "done" => (fallbacks[c] = 1 /\ FromFallback(c))

\* C5 witness: the worker's upload or analysis failed, the failure response
\* rejected sendTask and the fallback then produced the caller's result.
C5_Witness ==
  \E c \in Calls :
    /\ callKind[c] = "facade"
    /\ c \in collabFailed
    /\ promise[c] = "rej_failed"
    /\ workerRuns[c] = 1
    /\ fallbacks[c] = 1
    /\ outcome[c] = "fallback_result"

\* C6: when the worker of a type raises 'error', that step rejects every task
\* of that type that has a pending entry, disarms its timeout and removes its
\* entry; the tasks of the other type keep promise, entry and timeout.
C6_ErrorFailsOwnTasksOnly ==
  [][\A i \in Insts : WorkerError(i) =>
       \A c \in Calls :
         /\ (callType[c] = threadType[i] /\ TaskIdOf(c) \in pendingTasks) =>
              /\ promise'[c] = "rej_error"
              /\ settles'[c] = 1
              /\ TaskIdOf(c) \notin pendingTasks'
              /\ TaskIdOf(c) \notin timers'
         /\ callType[c] # threadType[i] =>
              /\ promise'[c] = promise[c]
              /\ settles'[c] = settles[c]
              /\ (TaskIdOf(c) \in pendingTasks') <=> (TaskIdOf(c) \in pendingTasks)
              /\ (TaskIdOf(c) \in timers') <=> (TaskIdOf(c) \in timers)]_vars

\* C6 witness: a task was rejected by its worker's error while a task of the
\* other type is still pending with its timeout armed.
C6_Witness ==
  \E c, d \in Calls :
    /\ callType[c] # callType[d]
    /\ promise[c] = "rej_error"
    /\ promise[d] = "pending"
    /\ TaskIdOf(d) \in pendingTasks
    /\ TaskIdOf(d) \in timers

\* C7 as claimed: the step that handles a worker's runtime error drops the
\* worker record, so isWorkerAvailable(type) is false afterwards.
C7_Original ==
  [][\A i \in Insts :
       (WorkerError(i) /\ workers[threadType[i]] = i)
         => ~isWorkerAvailable(threadType[i])']_vars

\* A step of terminateWorker or terminateAll (a call, or the completion of
\* worker.terminate()).
TerminationStep ==
  \/ terminations' # terminations
  \/ TerminateAll

\* C8: every promise sendTask returns on an initialized worker settles in the
\* end; while it is pending its timeout stays armed, also after the worker
\* exited or was terminated; no step of terminateWorker or terminateAll settles
\* a promise; without a response and without a worker error the promise is
\* rejected by the timeout, and then no pending entry of the task remains.
C8_TimeoutAlwaysSettles ==
  /\ \A c \in Calls : (promise[c] = "pending") ~> Settled(c)
  /\ [][/\ TerminationStep => UNCHANGED <<promise, settles, timers>>
        /\ \A c \in Calls :
             /\ promise'[c] = "pending" =>
                  generateTaskId(callType'[c], c) \in timers'
             /\ (promise[c] = "pending" /\ promise'[c] # "pending"
                 /\ delivered'[c] = delivered[c] /\ promise'[c] # "rej_error") =>
                  /\ promise'[c] = "rej_timeout"
                  /\ TaskIdOf(c) \notin pendingTasks'
                  /\ TaskIdOf(c) \notin timers']_vars

\* C8 witness: terminateAll removed the worker and cleared the pending map
\* while a task was pending; the promise is still pending and only its timeout
\* is left to settle it.
C8_Witness ==
  \E c \in Calls :
    /\ promise[c] = "pending"
    /\ ~isWorkerAvailable(callType[c])
    /\ TaskIdOf(c) \notin pendingTasks
    /\ TaskIdOf(c) \in timers
    /\ delivered[c] = 0

\* C9: handling a response whose task id has no pending entry leaves the
\* pending map, the timeouts, the worker map, every promise and every caller
\* as they are.
C9_UnknownResponseIsNoOp ==
  [][\A c \in Calls :
       (delivered'[c] = delivered[c] + 1 /\ TaskIdOf(c) \notin pendingTasks) =>
         UNCHANGED <<pendingTasks, timers, workers, promise, settles, callPc,
                     fallbacks, outcome>>]_vars

\* C9 witness: a direct sendTask timed out and the response that arrived
\* afterwards has been handled.
C9_Witness ==
  \E c \in Calls :
    /\ callKind[c] = "direct"
    /\ promise[c] = "rej_timeout"
    /\ delivered[c] = 1
    /\ settles[c] = 1
    /\ outcome[c] = "rej_timeout"

\* C10: sendTask for a type without a worker in the map rejects at once and
\* creates no pending entry, arms no timeout and posts no message.
C10_SendWithoutWorkerFails ==
  [][\A c \in Calls :
       (callKind[c] = "none" /\ callKind'[c] = "direct"
        /\ ~isWorkerAvailable(callType'[c])) =>
         /\ promise'[c] = "rej_noworker"
         /\ callPc'[c] = "done"
         /\ UNCHANGED <<pendingTasks, timers, inbox, workers, channel>>]_vars

\* C10 witness: a direct sendTask was rejected because no worker of the type
\* was initialized.
C10_Witness ==
  \E c \in Calls :
    /\ callKind[c] = "direct"
    /\ promise[c] = "rej_noworker"
    /\ ~isWorkerAvailable(callType[c])
    /\ TaskIdOf(c) \notin pendingTasks

----------------------------------------------------------------------------
(* Properties of the camera lock *)

\* C1 (as stated): for each user, at most one requestPhoto() call is being
\* awaited at any time.
C1_Original == \A u \in Users : Cardinality(inFlight[u]) <= 1

\* The operation has set the camera-in-use flag and has not yet left the
\* function that set it.
Holding(o) ==
  \/ ops[o].pc = "capturing"
  \/ (ops[o].kind = "short" /\ ops[o].pc = "processing")

\* C11: a short-press or long-press capture that has set the camera-in-use
\* flag always leaves the function that set it (capture success, capture
\* timeout or null photo, an exception of the downstream workflow), and the
\* step on which it leaves sets the flag of its user to false.
C11_FlagClearedOnEveryExit ==
  /\ \A o \in OpIds : Holding(o) ~> ~Holding(o)
  /\ [][\A o \in OpIds :
         (Holding(o) /\ ~(\/ ops'[o].pc = "capturing"
                          \/ (ops'[o].kind = "short" /\ ops'[o].pc = "processing")))
           => cameraInUse'[ops[o].user] = Entry(FALSE)]_vars

\* C11 witness: a short press captured a photo, its workflow ended, and the
\* flag is false; a long press gave up without a photo.
C11_Witness ==
  /\ ops[1].kind = "short" /\ ops[1].pc = "done" /\ ops[1].exit = "photo"
  /\ ops[2].kind = "long" /\ ops[2].pc = "done" /\ ops[2].exit = "no_photo"
  /\ cameraInUse["u1"] = Entry(FALSE)

\* The operation takes the camera on this step: it sets the flag and issues
\* its first requestPhoto().
Acquires(o) == ops[o].pc \in {"none", "waiting"} /\ ops'[o].pc = "capturing"

\* The operation that held the camera leaves the function that set the flag.
Completes(o) ==
  /\ Holding(o)
  /\ ~(\/ ops'[o].pc = "capturing"
       \/ (ops'[o].kind = "short" /\ ops'[o].pc = "processing"))

NoEntries(u) ==
  /\ isStreamingPhotos[u] = Absent
  /\ nextPhotoTime[u] = Absent
  /\ cameraReady[u] = Absent
  /\ cameraInUse[u] = Absent
  /\ lastCameraOperation[u] = Absent
  /\ userSessions[u] = Absent
  /\ isCapturingQuestion[u] = Absent
  /\ capturedQuestions[u] = Absent

\* Every session of the user that started has been stopped, and one has.
AllStopped(u) ==
  /\ \E s \in Sessions : UserOf(s) = u /\ stopped[s]
  /\ \A s \in Sessions : (UserOf(s) = u /\ sessionPc[s] # "none") => stopped[s]

\* C13 as claimed: after onStop for a user, and until a new session of the
\* user starts, none of the eight per-user maps holds an entry for the user,
\* also when a capture or an analysis was in flight when the session stopped.
C13_Original == \A u \in Users : AllStopped(u) => NoEntries(u)

\* C14 as claimed: after onStop for a session its interval is cleared and its
\* button and transcription listeners are unsubscribed, so that no later
\* tick or event of the session reaches a handler.
C14_Original == \A s \in Sessions : stopped[s] => subscribed[s] = {}
\* C15: a long press that ends a question capture whose buffer is empty or
\* holds only whitespace leaves capture mode and returns on the no-question
\* exit: it does not wait for the camera, sets no camera flag, starts no
\* capture and dispatches nothing.
C15_EmptyQuestionStartsNothing ==
  [][\A u \in Users :
       (/\ LongPress(u)
        /\ isCapturingQuestion[u] = Entry(TRUE)
        /\ Trim(Question(u)) = <<>>)
         => /\ isCapturingQuestion'[u] = Entry(FALSE)
            /\ UNCHANGED <<ops, inFlight, cameraInUse, lastCameraOperation,
                           capturedQuestions, wmVars>>]_vars

\* An earlier long press ran to its end, which deleted the buffer; a capture
\* was started again (the buffer is '') and stopped with nothing heard.
C15_Witness ==
  \E u \in Users :
    /\ Started = {1}
    /\ ops[1].kind = "long" /\ ops[1].pc = "done"
    /\ isCapturingQuestion[u] = Entry(FALSE)
    /\ capturedQuestions[u] = Entry(<<>>)
\* C16: a long press that stops a capture with a non-empty buffer starts one
\* operation holding the buffered question; when the camera is acquired and
\* the photo arrives, the operation dispatches the image-and-question task,
\* once, with that question, whatever happened to the buffer in between; and
\* when the analysis completes or fails the buffer of the user is empty.
C16_DispatchOnceWithQuestion ==
  [][\A o \in OpIds :
       /\ (ops[o].kind = "none" /\ ops'[o].kind = "long")
            => /\ ops'[o].question = Question(ops'[o].user)
               /\ Trim(ops'[o].question) # <<>>
       /\ (ops[o].kind = "long" /\ PhotoArrives(o))
            => /\ ops'[o].pc = "dispatch"
               /\ ops'[o].carried = ops[o].question
       /\ (ops[o].pc # "dispatch" /\ ops'[o].pc = "dispatch")
            => ops[o].kind = "long" /\ PhotoArrives(o)
       /\ ops[o].pc = "dispatch" => ops'[o] = ops[o] \/ DispatchDone(o)
       /\ ops[o].pc = "done" => ops'[o] = ops[o]
       /\ (ops[o].pc = "dispatch" /\ DispatchDone(o))
            => /\ ops'[o].pc = "done"
               /\ capturedQuestions'[ops[o].user] = Absent]_vars

\* The analysis of a long press has ended: it carried the question "a", and
\* the buffer of the user is empty.
C16_Witness ==
  \E o \in OpIds :
    /\ ops[o].kind = "long" /\ ops[o].pc = "done" /\ ops[o].exit = "photo"
    /\ ops[o].carried = <<"a">>
    /\ Question(ops[o].user) = <<>>
\* C17 as claimed: while a question capture is active the buffer is the final
\* fragments received since the capture started, trimmed and joined by single
\* spaces: the capture starts with an empty buffer, and while it is active
\* the buffer changes only by a final fragment, which is appended; a fragment
\* that is not final, or arrives while no capture is active, changes nothing.
C17_Original ==
  [][\A u \in Users :
       /\ (isCapturingQuestion[u] # Entry(TRUE) /\ isCapturingQuestion'[u] = Entry(TRUE))
            => Question(u)' = <<>>
       /\ (/\ isCapturingQuestion[u] = Entry(TRUE)
           /\ isCapturingQuestion'[u] = Entry(TRUE)
           /\ Question(u)' # Question(u))
            => \E text \in Fragments : Transcription(u, text, TRUE)
       /\ \A text \in Fragments, isFinal \in BOOLEAN :
            (/\ Transcription(u, text, isFinal)
             /\ ~(isCapturingQuestion[u] = Entry(TRUE) /\ isFinal))
              => Question(u)' = Question(u)]_vars
\* The live threads of a type.
LiveOf(type) == {i \in liveThreads : threadType[i] = type}

\* C18 as claimed: after any sequence of initializeWorker and terminateWorker
\* calls on a type, overlapping calls included, at most one thread of the
\* type is live, and it is the one recorded in this.workers.
C18_Original ==
  \A t \in Types : LiveOf(t) \subseteq {workers[t]}
\* C19 as claimed: a dispatch takes the fallback without a send only when no
\* worker of the requested type is available; when the worker of the
\* requested type is initialized the facade sends the task to it, whatever
\* the state of the workers of the other types.
C19_Original ==
  [][\A c \in Calls, t \in Types :
       DispatchCall(c, t)
         => IF isWorkerAvailable(t)
            THEN sends'[c] = 1 /\ fallbacks'[c] = 0
            ELSE sends'[c] = 0 /\ fallbacks'[c] = 1]_vars
C21_LongPressAlternates ==
  [][\A u \in Users :
       /\ (LongPress(u) /\ isCapturingQuestion[u] # Entry(TRUE))
            => /\ isCapturingQuestion'[u] = Entry(TRUE)
               /\ capturedQuestions'[u] = Entry(<<>>)
       /\ (LongPress(u) /\ isCapturingQuestion[u] = Entry(TRUE))
            => isCapturingQuestion'[u] = Entry(FALSE)
       /\ ShortPress(u)
            => UNCHANGED <<isCapturingQuestion, capturedQuestions>>]_vars

\* A capture was started, stopped with a question (its long-press operation
\* exists) and started again: the flag is set and the buffer is ''.
C21_Witness ==
  \E u \in Users, o \in OpIds :
    /\ ops[o].kind = "long" /\ ops[o].user = u
    /\ isCapturingQuestion[u] = Entry(TRUE)
    /\ capturedQuestions[u] = Entry(<<>>)
\* C29: in every reachable state the streaming flag of every user is false
\* or absent, and the callback of the polling interval has started no
\* capture.
C29_StreamingNeverOn ==
  /\ \A u \in Users : isStreamingPhotos[u] \in {Absent, Entry(FALSE)}
  /\ \A o \in OpIds : ops[o].kind # "stream"

\* The interval of a connected session has been running for two periods,
\* the flag of the user is false and a button press has started a capture.
C29_Witness ==
  \E s \in Sessions :
    /\ Connected(s) /\ "interval" \in subscribed[s]
    /\ now >= StartTime + 2 * SessionClockStepMs
    /\ isStreamingPhotos[UserOf(s)] = Entry(FALSE)
    /\ Started # {}
\* C24 as claimed: a worker processes one task at a time, in the order
\* received: it starts no task before it has posted the response of the
\* task it received before.
C24_Original == \A i \in Insts : Cardinality(running[i]) <= 1
\* C25: when several tasks with distinct ids are pending, the responses may
\* arrive in any order; a response settles the promise of the task with its
\* id only, with its own result or error, and leaves the other pending
\* entries, their timeouts and their promises as they are.
C25_ResponseSettlesOwnTaskOnly ==
  [][\A r \in channel :
       (HandleWorkerMessage(r) /\ r.id \in pendingTasks)
         => \A c \in Calls :
              IF c = CallOf(r.id)
              THEN /\ promise'[c] = (IF r.success THEN "resolved" ELSE "rej_failed")
                   /\ settles'[c] = settles[c] + 1
                   /\ r.id \notin pendingTasks'
              ELSE /\ promise'[c] = promise[c]
                   /\ settles'[c] = settles[c]
                   /\ (TaskIdOf(c) \in pendingTasks') <=> (TaskIdOf(c) \in pendingTasks)
                   /\ (TaskIdOf(c) \in timers') <=> (TaskIdOf(c) \in timers)]_vars

\* Two tasks were sent; the response of the second was handled first: its
\* promise is settled while the first is still pending with its timeout armed.
C25_Witness ==
  \E c, d \in Calls :
    /\ c < d
    /\ sends[c] = 1 /\ sends[d] = 1
    /\ promise[d] \in {"resolved", "rej_failed"}
    /\ delivered[d] = 1 /\ delivered[c] = 0
    /\ promise[c] = "pending"
    /\ TaskIdOf(c) \in pendingTasks /\ TaskIdOf(c) \in timers
\* C26: waitForCameraAvailability always terminates.  A pass of its loop
\* that finds the camera not in use and the cooldown elapsed returns true
\* (the caller starts its capture); it returns false only when maxWaitMs has
\* elapsed, and no sleep begins after that, so it returns within one sleep
\* of at most 500 ms; a pass that goes to sleep changes neither the
\* camera-in-use flag nor the time of the last operation.
C26_WaitTerminates ==
  /\ \A o \in OpIds : (ops[o].pc = "waiting") ~> (ops[o].pc # "waiting")
  /\ [](\A o \in OpIds :
          ops[o].pc = "waiting"
            => /\ ops[o].wake - now <= SleepMs
               /\ ops[o].wake - ops[o].start < ops[o].maxWait + SleepMs)
  /\ [][\A o \in OpIds :
          /\ (/\ WaitWake(o)
              /\ now - ops[o].start < ops[o].maxWait
              /\ CameraFree(ops[o].user)
              /\ now - LastOperation(ops[o].user) >= CooldownMs)
               => ops'[o].pc = "capturing"
          /\ (ops[o].pc = "waiting" /\ ops'[o].exit = "wait_timeout")
               => now - ops[o].start >= ops[o].maxWait
          /\ ((ops[o].pc = "none" \/ WaitWake(o)) /\ ops'[o].pc = "waiting")
               => UNCHANGED <<cameraInUse, lastCameraOperation>>]_vars

\* A wait slept through its maxWaitMs and returned false while the capture
\* that held the camera was still under way.
C26_Witness ==
  \E o, p \in OpIds :
    /\ ops[o].pc = "done" /\ ops[o].exit = "wait_timeout"
    /\ ops[p].pc = "capturing"
\* C27 as claimed: the camera-in-use flag of a user is set to false only by
\* the operation that set it to true: a capture request whose wait for the
\* camera timed out leaves the flag and the time of the last operation
\* unchanged.
C27_Original ==
  [][\A o \in OpIds :
       (ops[o].exit # "wait_timeout" /\ ops'[o].exit = "wait_timeout")
         => UNCHANGED <<cameraInUse, lastCameraOperation>>]_vars
\* C28 as claimed: the cleanup of the buffer at the end of one question
\* analysis never discards text of a later question capture: when the
\* analysis of a long press ends while a new capture of the user is active,
\* the buffer of the new capture keeps what it holds.
C28_Original ==
  [][\A o \in OpIds :
       (/\ ops[o].kind = "long"
        /\ ops[o].pc # "done" /\ ops'[o].pc = "done"
        /\ isCapturingQuestion[ops[o].user] = Entry(TRUE))
         => Question(ops[o].user)' = Question(ops[o].user)]_vars

\* C30 as claimed: after shutdown() has returned, the worker manager records
\* no worker that initializeDefaultWorkers started, also when only one of the
\* two workers was initialized.
C30_Original ==
  shutdownPc = "returned" => \A t \in Types : workers[t] = 0

====
